---- MODULE Spec2Model ----
(***************************************************************************)
(* A model of opensnoop (src/opensnoop.c, lines 1-366): the life cycle of  *)
(* the getnameprobe kretprobe and of the "opensnoop" trace instance, the   *)
(* polling loop that decodes the probe's records, and the SIGINT handler   *)
(* that cancels it.  The tracing layer (libtracefs and the kernel) is the  *)
(* environment: each call returns 0 or -1 and changes the kernel's state   *)
(* as the library documents.  The earlier variant of the program (lines    *)
(* 369-546), with its ensure_events_exist, has a specification of its own. *)
(***************************************************************************)
EXTENDS Integers, Sequences, FiniteSets, TLC

\* ------------------------------------------------------------------ bounds
\* Records the kernel emits into the instance's buffer during one run.
MaxRecords == 2
\* SIGINT deliveries during one run.
MaxSigints == 2
\* Where the counters of the run's observations stop counting.
CounterCap == 3

\* ------------------------------------------------------- program constants
EXIT_SUCCESS == 0
EXIT_FAILURE == 1

K_EVENT == "kprobes/getnameprobe"
\* Events of the tracing directory the program does not enable.
OtherEvents == {"syscalls/sys_exit_open", "syscalls/sys_exit_openat"}
Events == {K_EVENT} \cup OtherEvents

\* What a tracing-layer call returns: 0 on success, -1 on failure.
Rets == {0, -1}

\* How the kernel's getnameprobe record decodes in callback.
Kinds == {"ok", "nofield", "badname", "badpid"}

\* The width of the PID column, and the header's two words.
PID_SPACING == 0 - 7
PID_HEADER == <<"P", "I", "D">>
F_HEADER == <<"F", "I", "L", "E">>

\* The process ids and the filenames (arg1, as characters) a record carries.
\* BigPid has more digits than the column is wide.
SmallPid == 1234
BigPid == 12345678
Pids == {SmallPid, BigPid}
EtcPasswd == <<"/", "e", "t", "c", "/", "p", "a", "s", "s", "w", "d">>
Names == {EtcPasswd, <<"a">>}
\* The opens the kernel reports: a short pid and a long one, each with its
\* filename.
Opens == {<<SmallPid, EtcPasswd>>, <<BigPid, <<"a">>>>, <<SmallPid, <<"a">>>>}

VARIABLES
    pc,            \* main's position
    retMode,       \* what main returns after the teardown: "fail" or "check"
    exitCode,      \* main's return value, -1 while it runs
    kprobe_event,  \* main's descriptor handle: "NULL" or "desc"
    descMem,       \* the descriptor's memory: "none", "live", "freed"
    inst,          \* the global instance handle: "NULL" or "inst"
    instMem,       \* the instance handle's memory: "none", "live", "freed"
    probeInstalled,\* kernel: the getnameprobe event exists
    instExists,    \* kernel: instances/opensnoop exists
    enabled,       \* kernel: events enabled in the instance
    tracing,       \* kernel: the instance's tracing_on
    buffer,        \* kernel: the instance's ring buffer
    nEmitted,      \* records emitted so far
    iter_events,   \* the cancellation flag
    keep_going,    \* the instance's iterate_keep_going
    sigHandler,    \* SIGINT disposition: "SIG_DFL" or "stop_iter"
    nSigints,      \* SIGINT deliveries so far
    followed,      \* callback is registered for the probe's event
    passRet,       \* the last callback's return value within the pass
    seq,           \* diagnostics pending in the shared trace_seq
    stdout,        \* what was written to standard output
    nStderr,       \* diagnostics written to the error channel
    calls,         \* the tracing-layer life-cycle calls made, with results
    inst_failure,  \* cleanup's local: cleanup_instance's result
    kprobe_failure,\* cleanup's local: cleanup_kprobe's result
    obs            \* observations of the run (history)

vars == <<pc, retMode, exitCode, kprobe_event, descMem, inst, instMem,
          probeInstalled, instExists, enabled, tracing, buffer, nEmitted,
          iter_events, keep_going, sigHandler, nSigints, followed, passRet,
          seq, stdout, nStderr, calls, inst_failure, kprobe_failure, obs>>

kernelVars == <<probeInstalled, instExists, enabled, tracing, buffer, nEmitted>>
handleVars == <<kprobe_event, descMem, inst, instMem>>
iterVars == <<iter_events, keep_going, sigHandler, followed, passRet, seq>>
cleanupVars == <<inst_failure, kprobe_failure>>

\* ------------------------------------------------------------- C helpers
\* C's conversion of an int to bool.
BoolOf(i) == IF i # 0 THEN 1 ELSE 0

\* C's a || b on ints.
LOr(a, b) == IF a # 0 \/ b # 0 THEN 1 ELSE 0

Called(name) == \E i \in 1..Len(calls) : calls[i][1] = name
NCalls(name) == Cardinality({i \in 1..Len(calls) : calls[i][1] = name})
CallFailed(name) == \E i \in 1..Len(calls) : calls[i][1] = name /\ calls[i][2] # 0

Log(name, r) == Append(calls, <<name, r>>)

\* The call of that name and result made after read_event_data returned.
CalledAfterRead(name, r) ==
    \E i \in 1..Len(calls) : /\ calls[i] = <<name, r>>
                             /\ \E j \in 1..(i-1) : calls[j][1] = "read_event_data"

\* The index of the first call of that name, 0 when there is none.
IndexOf(name) ==
    IF Called(name)
    THEN CHOOSE i \in 1..Len(calls) :
            calls[i][1] = name /\ \A j \in 1..(i-1) : calls[j][1] # name
    ELSE 0

\* What standard output receives: the header row (line 345), a record's line
\* (line 228), the text of the trace_seq (print_seq, lines 169-176).
\* printf's conversions.  %lld: the decimal digits of a value that is not
\* negative.  A field width w: the text is padded with spaces to |w|
\* characters, on the left when w is positive and on the right (left-justified)
\* when w is negative; a longer text is written whole.
DigitChar(d) == <<"0", "1", "2", "3", "4", "5", "6", "7", "8", "9">>[d + 1]
RECURSIVE Decimal(_)
Decimal(v) == IF v < 10 THEN <<DigitChar(v)>>
              ELSE Append(Decimal(v \div 10), DigitChar(v % 10))
Spaces(k) == [i \in 1..k |-> " "]
Abs(w) == IF w < 0 THEN 0 - w ELSE w
PadTo(w, text) ==
    LET fill == IF Abs(w) > Len(text) THEN Abs(w) - Len(text) ELSE 0
    IN  IF w < 0 THEN text \o Spaces(fill) ELSE Spaces(fill) \o text

\* printf("%*lld%s\n", width, pid, filename), line 228, without the newline.
printf_record_Right(width, pid, filename) ==
    PadTo(Abs(width), Decimal(pid)) \o filename
printf_record(width, pid, filename) ==
    PadTo(width, Decimal(pid)) \o filename

\* printf("\n%*s%s\n", width, pidHeader, fHeader), line 345: the row after
\* the empty line.
printf_header(width, pidHeader, fHeader) == PadTo(width, pidHeader) \o fHeader

HeaderLine == [t |-> "header", early |-> FALSE, n |-> 0, id |-> 0,
               pid |-> 0, filename |-> <<>>,
               text |-> printf_header(PID_SPACING, PID_HEADER, F_HEADER)]
RecordLine(rec) == [t |-> "line", early |-> rec.early, n |-> 0, id |-> rec.id,
                    pid |-> rec.pid, filename |-> rec.filename,
                    text |-> printf_record(PID_SPACING, rec.pid, rec.filename)]
PromptLine == [t |-> "prompt", early |-> FALSE, n |-> 0, id |-> 0,
               pid |-> 0, filename |-> <<>>, text |-> <<>>]
SeqDump(n) == [t |-> "seq", early |-> FALSE, n |-> n, id |-> 0,
               pid |-> 0, filename |-> <<>>, text |-> <<>>]

\* The observations a run starts with.
Obs0 == [ enableOk     |-> FALSE,  \* enable_necessary_events returned 0
          enableFailed |-> FALSE,  \* enable_necessary_events returned nonzero
          clearFailed  |-> FALSE,  \* turn_trace_on's first step failed
          looped       |-> FALSE,  \* the polling loop's body was entered
          sigSeen      |-> FALSE,  \* stop_iter has run
          nStops       |-> 0,      \* how many times stop_iter has run
          itersAfterSig  |-> 0,    \* loop bodies entered after stop_iter ran
          passesAfterSig |-> 0,    \* iterate calls started after stop_iter ran
          sleepsAfterSig |-> 0,    \* sleeps begun after stop_iter ran
          flagObserved |-> FALSE,  \* the loop read iter_events as false
          nCallback    |-> 0,      \* invocations of callback
          nNoField     |-> 0,      \* ... that found no filename field
          cleanupRet   |-> -1,     \* what cleanup returned
          setupFailed  |-> FALSE ] \* a start-up step failed

\* ------------------------------------------------------------------ Init
\* A dead earlier run may have left instances/opensnoop behind, with syscall
\* events enabled in it (the earlier variants enable them).
Init ==
    /\ pc = "alloc"
    /\ retMode = "check"
    /\ exitCode = -1
    /\ kprobe_event = "NULL"
    /\ descMem = "none"
    /\ inst = "NULL"
    /\ instMem = "none"
    /\ probeInstalled = FALSE
    /\ instExists \in BOOLEAN
    /\ enabled \in SUBSET OtherEvents
    /\ (~instExists => enabled = {})
    /\ tracing = instExists
    /\ buffer = <<>>
    /\ nEmitted = 0
    /\ iter_events = TRUE
    /\ keep_going = FALSE
    /\ sigHandler = "SIG_DFL"
    /\ nSigints = 0
    /\ followed = FALSE
    /\ passRet = 0
    /\ seq = 0
    /\ stdout = <<>>
    /\ nStderr = 0
    /\ calls = <<>>
    /\ inst_failure = 0
    /\ kprobe_failure = 0
    /\ obs = Obs0

\* ------------------------------------------------------ the tracing layer
\* The probe's event is enabled in a live instance: a non-forced removal of
\* the probe is refused.
ProbeBusy == instExists /\ K_EVENT \in enabled

\* tracefs_dynevent_destroy(kprobe_event, FORCE_DESTROY_KPROBE).
DynDestroyRets == IF probeInstalled /\ ~ProbeBusy THEN Rets ELSE {-1}

\* tracefs_instance_destroy(inst).
InstDestroyRets == IF instExists THEN Rets ELSE {-1}

\* --------------------------------------------------------------- main
\* main, lines 306-363: where main goes when a step fails: it returns at once
\* (lines 311, 331), tears the probe down (line 320) or calls cleanup (lines
\* 338, 350, 361).
FailTarget_NoFilterTeardown(step) ==
    CASE step = "alloc"          -> "exited"
      [] step = "inst_create"    -> "cleanup_kprobe"
      [] step = "dyn_create"     -> "exited"
      [] step = "enable_events"  -> "exited"
      [] step = "turn_trace_on"  -> "cleanup_instance"
      [] step = "trace_off"      -> "cleanup_instance"
FailTarget_ProbeOnly(step) ==
    CASE step = "alloc"          -> "exited"
      [] step = "inst_create"    -> "cleanup_kprobe"
      [] step = "dyn_create"     -> "exited"
      [] step = "enable_events"  -> "cleanup_instance"
      [] step = "turn_trace_on"  -> "cleanup_kprobe"
      [] step = "trace_off"      -> "cleanup_instance"
FailTarget(step) ==
    CASE step = "alloc"          -> "exited"
      [] step = "inst_create"    -> "cleanup_kprobe"
      [] step = "dyn_create"     -> "exited"
      [] step = "enable_events"  -> "cleanup_instance"
      [] step = "turn_trace_on"  -> "cleanup_instance"
      [] step = "trace_off"      -> "cleanup_instance"

\* main's return value when it returns at FailTarget(step) without teardown.
FailExit(step, code) == IF FailTarget(step) = "exited" THEN EXIT_FAILURE ELSE code

\* main, lines 321, 339, 351, 362, 364-365: main's return value after the
\* teardown: EXIT_FAILURE on a failure path, cleanup's result otherwise.
MainReturn_Success(mode, check) == EXIT_SUCCESS
MainReturn(mode, check) == IF mode = "fail" THEN EXIT_FAILURE ELSE check

\* main, lines 303-312: tracefs_kretprobe_alloc.
AllocKprobe ==
    /\ pc = "alloc"
    /\ \E ok \in BOOLEAN :
        IF ok
        THEN /\ kprobe_event' = "desc"
             /\ descMem' = "live"
             /\ calls' = Log("kretprobe_alloc", 0)
             /\ pc' = "inst_create"
             /\ UNCHANGED <<exitCode, nStderr, obs>>
        ELSE /\ calls' = Log("kretprobe_alloc", -1)
             /\ nStderr' = nStderr + 2
             /\ exitCode' = FailExit("alloc", exitCode)
             /\ pc' = FailTarget("alloc")
             /\ obs' = [obs EXCEPT !.setupFailed = TRUE]
             /\ UNCHANGED <<kprobe_event, descMem>>
    /\ UNCHANGED <<retMode, inst, instMem, kernelVars, iterVars, nSigints,
                   stdout, cleanupVars>>

\* main, lines 314-322: tracefs_instance_create(INST_NAME).  A new instance
\* starts with no event enabled, an empty buffer and tracing on; an existing
\* one is opened as it is.
CreateInstance ==
    /\ pc = "inst_create"
    /\ \E ok \in BOOLEAN :
        IF ok
        THEN /\ inst' = "inst"
             /\ instMem' = "live"
             /\ instExists' = TRUE
             /\ enabled' = IF instExists THEN enabled ELSE {}
             /\ tracing' = IF instExists THEN tracing ELSE TRUE
             /\ calls' = Log("instance_create", 0)
             /\ pc' = "dyn_create"
             /\ UNCHANGED <<retMode, exitCode, nStderr, obs>>
        ELSE /\ calls' = Log("instance_create", -1)
             /\ nStderr' = nStderr + 1
             /\ retMode' = "fail"
             /\ exitCode' = FailExit("inst_create", exitCode)
             /\ pc' = FailTarget("inst_create")
             /\ obs' = [obs EXCEPT !.setupFailed = TRUE]
             /\ UNCHANGED <<inst, instMem, instExists, enabled, tracing>>
    /\ UNCHANGED <<kprobe_event, descMem, probeInstalled, buffer,
                   nEmitted, iterVars, nSigints, stdout, cleanupVars>>

\* main, lines 324-332: tracefs_dynevent_create(kprobe_event).  On failure
\* main returns at line 331 without any teardown.
CreateDynevent ==
    /\ pc = "dyn_create"
    /\ \E check \in Rets :
        /\ calls' = Log("dynevent_create", check)
        /\ IF check # 0
           THEN /\ nStderr' = nStderr + 2
                /\ retMode' = "fail"
                /\ exitCode' = FailExit("dyn_create", exitCode)
                /\ pc' = FailTarget("dyn_create")
                /\ obs' = [obs EXCEPT !.setupFailed = TRUE]
                /\ UNCHANGED probeInstalled
           ELSE /\ probeInstalled' = TRUE
                /\ pc' = "enable_events"
                /\ UNCHANGED <<retMode, exitCode, nStderr, obs>>
    /\ UNCHANGED <<handleVars, instExists, enabled, tracing, buffer,
                   nEmitted, iterVars, nSigints, stdout, cleanupVars>>

\* The events enable_necessary_events enables after the reset, line 88.
NecessaryEvents_Earlier == Events
NecessaryEvents == {K_EVENT}

\* enable_necessary_events, lines 75-90, with enable_event, lines 59-70:
\* its result as C's bool, given the reset's result and the events whose
\* tracefs_event_enable failed.
enable_necessary_events_IgnoresReset(dis, failedSet) ==
    BoolOf(IF failedSet # {} THEN -1 ELSE 0)
enable_necessary_events(dis, failedSet) ==
    IF dis # 0 THEN BoolOf(EXIT_FAILURE)
    ELSE BoolOf(IF failedSet # {} THEN -1 ELSE 0)

\* main, lines 334-340: enable_necessary_events(inst), and the teardown's
\* start when it fails.  A failed tracefs_event_disable(inst, NULL, NULL) may
\* have disabled some of the events.
EnableEvents ==
    /\ pc = "enable_events"
    /\ \E dis \in Rets, rest \in SUBSET enabled, failedSet \in SUBSET NecessaryEvents :
        LET afterReset == IF dis = 0 THEN {} ELSE rest
            attempted == IF dis = 0 THEN NecessaryEvents ELSE {}
            fails == failedSet \cap attempted
            check == enable_necessary_events(dis, fails)
        IN  /\ (dis = 0 => rest = {})
            /\ (dis # 0 => failedSet = {})
            /\ enabled' = afterReset \cup (attempted \ fails)
            /\ calls' = Log("event_disable", dis)
                        \o (IF attempted = {} THEN <<>>
                            ELSE <<<<"event_enable",
                                     IF fails = {} THEN 0 ELSE -1>>>>)
                        \o <<<<"enable_necessary_events", check>>>>
            /\ IF check # 0
               THEN /\ nStderr' = nStderr + 2 + Cardinality(fails)
                    /\ retMode' = "fail"
                    /\ exitCode' = FailExit("enable_events", exitCode)
                    /\ pc' = FailTarget("enable_events")
                    /\ obs' = [obs EXCEPT !.enableFailed = TRUE,
                                          !.setupFailed = TRUE]
               ELSE /\ pc' = "prompt"
                    /\ obs' = [obs EXCEPT !.enableOk = TRUE]
                    /\ UNCHANGED <<nStderr, retMode, exitCode>>
    /\ UNCHANGED <<handleVars, probeInstalled, instExists, tracing,
                   buffer, nEmitted, iterVars, nSigints, stdout, cleanupVars>>

\* main, line 343: the prompt is written and scanf waits for the keypress.
Prompt_WithHeader ==
    /\ pc = "prompt"
    /\ stdout' = stdout \o <<PromptLine, HeaderLine>>
    /\ pc' = "await_key"
    /\ UNCHANGED <<retMode, exitCode, handleVars, kernelVars, iterVars,
                   nSigints, nStderr, calls, cleanupVars, obs>>
Prompt ==
    /\ pc = "prompt"
    /\ stdout' = Append(stdout, PromptLine)
    /\ pc' = "await_key"
    /\ UNCHANGED <<retMode, exitCode, handleVars, kernelVars, iterVars,
                   nSigints, nStderr, calls, cleanupVars, obs>>

\* main, lines 344-345: scanf returns (its result is not looked at) and the
\* header row is written.
ReadKey_SkipsTraceOn ==
    /\ pc = "await_key"
    /\ calls' = Log("scanf", 0)
    /\ stdout' = Append(stdout, HeaderLine)
    /\ pc' = "read_event_data"
    /\ UNCHANGED <<retMode, exitCode, handleVars, kernelVars, iterVars,
                   nSigints, nStderr, cleanupVars, obs>>
ReadKey ==
    /\ pc = "await_key"
    /\ calls' = Log("scanf", 0)
    /\ stdout' = Append(stdout, HeaderLine)
    /\ pc' = "turn_trace_on"
    /\ UNCHANGED <<retMode, exitCode, handleVars, kernelVars, iterVars,
                   nSigints, nStderr, cleanupVars, obs>>

\* turn_trace_on, lines 146-163: its result, given the results of
\* tracefs_trace_off and tracefs_trace_on.
turn_trace_on(off, on) == IF off # 0 THEN EXIT_FAILURE ELSE on

\* main, lines 347-352, with turn_trace_on, lines 146-163.  tracefs_trace_off
\* stops the writing to the buffer; the buffer keeps what it holds.
TurnTraceOn_StartsAnyway ==
    /\ pc = "turn_trace_on"
    /\ \E off \in Rets, on \in Rets :
        LET check == on
        IN  /\ tracing' = IF on = 0 THEN TRUE
                          ELSE IF off = 0 THEN FALSE ELSE tracing
            /\ calls' = Append(Log("trace_off", off), <<"trace_on", on>>)
            /\ obs' = [obs EXCEPT !.clearFailed = (off # 0),
                                  !.setupFailed = (check # 0)]
            /\ IF check # 0
               THEN /\ nStderr' = nStderr + 1
                    /\ retMode' = "fail"
                    /\ exitCode' = FailExit("turn_trace_on", exitCode)
                    /\ pc' = FailTarget("turn_trace_on")
               ELSE /\ pc' = "read_event_data"
                    /\ UNCHANGED <<nStderr, retMode, exitCode>>
    /\ UNCHANGED <<handleVars, probeInstalled, instExists, enabled,
                   buffer, nEmitted, iterVars, nSigints, stdout, cleanupVars>>
TurnTraceOn ==
    /\ pc = "turn_trace_on"
    /\ \E off \in Rets, on \in Rets :
        LET check == turn_trace_on(off, on)
        IN  /\ tracing' = IF off # 0 THEN tracing
                          ELSE IF on = 0 THEN TRUE ELSE FALSE
            /\ calls' = IF off # 0 THEN Log("trace_off", off)
                        ELSE Append(Log("trace_off", off), <<"trace_on", on>>)
            /\ obs' = [obs EXCEPT !.clearFailed = (off # 0),
                                  !.setupFailed = (check # 0)]
            /\ IF check # 0
               THEN /\ nStderr' = nStderr + 1
                    /\ retMode' = "fail"
                    /\ exitCode' = FailExit("turn_trace_on", exitCode)
                    /\ pc' = FailTarget("turn_trace_on")
               ELSE /\ pc' = "read_event_data"
                    /\ UNCHANGED <<nStderr, retMode, exitCode>>
    /\ UNCHANGED <<handleVars, probeInstalled, instExists, enabled,
                   buffer, nEmitted, iterVars, nSigints, stdout, cleanupVars>>

\* main, lines 357-363: the final tracefs_trace_off(inst).
TraceOff_ReturnsOnFailure ==
    /\ pc = "trace_off"
    /\ \E check \in Rets :
        /\ tracing' = IF check = 0 THEN FALSE ELSE tracing
        /\ calls' = Log("trace_off", check)
        /\ IF check # 0
           THEN /\ nStderr' = nStderr + 1
                /\ retMode' = "fail"
                /\ exitCode' = EXIT_FAILURE
                /\ pc' = "exited"
           ELSE /\ pc' = "cleanup_instance"
                /\ UNCHANGED <<nStderr, retMode, exitCode>>
    /\ UNCHANGED <<handleVars, probeInstalled, instExists, enabled,
                   buffer, nEmitted, iterVars, nSigints, stdout, cleanupVars, obs>>
TraceOff ==
    /\ pc = "trace_off"
    /\ \E check \in Rets :
        /\ tracing' = IF check = 0 THEN FALSE ELSE tracing
        /\ calls' = Log("trace_off", check)
        /\ IF check # 0
           THEN /\ nStderr' = nStderr + 1
                /\ retMode' = "fail"
                /\ exitCode' = FailExit("trace_off", exitCode)
                /\ pc' = FailTarget("trace_off")
           ELSE /\ pc' = "cleanup_instance"
                /\ UNCHANGED <<nStderr, retMode, exitCode>>
    /\ UNCHANGED <<handleVars, probeInstalled, instExists, enabled,
                   buffer, nEmitted, iterVars, nSigints, stdout, cleanupVars, obs>>

\* ------------------------------------------------------------- teardown
\* cleanup, lines 135-140: its result, given the two steps' results.
cleanup(i, k) == LOr(i, k)

\* cleanup_instance, lines 96-109, as called by cleanup at line 137:
\* tracefs_instance_destroy, then tracefs_instance_free whatever it returned.
\* The assignment of line 107 is to the parameter; the global inst keeps its
\* value.
CleanupInstance_ShortCircuit ==
    /\ pc = "cleanup_instance"
    /\ \E events_check \in InstDestroyRets :
        /\ instExists' = IF events_check = 0 THEN FALSE ELSE instExists
        /\ enabled' = IF events_check = 0 THEN {} ELSE enabled
        /\ tracing' = IF events_check = 0 THEN FALSE ELSE tracing
        /\ buffer' = IF events_check = 0 THEN <<>> ELSE buffer
        /\ instMem' = "freed"
        /\ calls' = Append(Log("instance_destroy", events_check),
                           <<"instance_free", 0>>)
        /\ nStderr' = nStderr + BoolOf(events_check)
        /\ inst_failure' = events_check
        /\ IF events_check # 0
           THEN /\ pc' = "exited"
                /\ exitCode' = EXIT_FAILURE
                /\ obs' = [obs EXCEPT !.cleanupRet = 1]
           ELSE /\ pc' = "cleanup_kprobe"
                /\ UNCHANGED <<exitCode, obs>>
    /\ UNCHANGED <<retMode, kprobe_event, descMem, inst, probeInstalled,
                   nEmitted, iterVars, nSigints, stdout, kprobe_failure>>
CleanupInstance ==
    /\ pc = "cleanup_instance"
    /\ \E events_check \in InstDestroyRets :
        /\ instExists' = IF events_check = 0 THEN FALSE ELSE instExists
        /\ enabled' = IF events_check = 0 THEN {} ELSE enabled
        /\ tracing' = IF events_check = 0 THEN FALSE ELSE tracing
        /\ buffer' = IF events_check = 0 THEN <<>> ELSE buffer
        /\ instMem' = "freed"
        /\ calls' = Append(Log("instance_destroy", events_check),
                           <<"instance_free", 0>>)
        /\ nStderr' = nStderr + BoolOf(events_check)
        /\ inst_failure' = events_check
        /\ pc' = "cleanup_kprobe"
    /\ UNCHANGED <<retMode, exitCode, kprobe_event, descMem, inst,
                   probeInstalled, nEmitted, iterVars, nSigints, stdout,
                   kprobe_failure, obs>>

\* cleanup_kprobe, lines 115-129, as called by cleanup at line 138 and by
\* main at line 320, then the caller's return: EXIT_FAILURE on the failure
\* paths (lines 321, 339, 351, 362), cleanup's result at line 365.
CleanupKprobe_FreeOnSuccess ==
    /\ pc = "cleanup_kprobe"
    /\ \E events_check \in DynDestroyRets :
        /\ probeInstalled' = IF events_check = 0 THEN FALSE ELSE probeInstalled
        /\ descMem' = IF events_check = 0 THEN "freed" ELSE descMem
        /\ calls' = IF events_check = 0
                    THEN Append(Log("dynevent_destroy", events_check),
                                <<"dynevent_free", 0>>)
                    ELSE Log("dynevent_destroy", events_check)
        /\ nStderr' = nStderr + BoolOf(events_check)
        /\ kprobe_failure' = events_check
        /\ obs' = [obs EXCEPT !.cleanupRet =
                      IF Called("instance_destroy")
                      THEN cleanup(inst_failure, events_check) ELSE -1]
        /\ exitCode' = MainReturn(retMode, cleanup(inst_failure, events_check))
        /\ pc' = "exited"
    /\ UNCHANGED <<retMode, kprobe_event, inst, instMem, instExists, enabled,
                   tracing, buffer, nEmitted, iterVars, nSigints, stdout,
                   inst_failure>>
CleanupKprobe ==
    /\ pc = "cleanup_kprobe"
    /\ \E events_check \in DynDestroyRets :
        /\ probeInstalled' = IF events_check = 0 THEN FALSE ELSE probeInstalled
        /\ descMem' = "freed"
        /\ calls' = Append(Log("dynevent_destroy", events_check),
                           <<"dynevent_free", 0>>)
        /\ nStderr' = nStderr + BoolOf(events_check)
        /\ kprobe_failure' = events_check
        /\ obs' = [obs EXCEPT !.cleanupRet =
                      IF Called("instance_destroy")
                      THEN cleanup(inst_failure, events_check) ELSE -1]
        /\ exitCode' = MainReturn(retMode, cleanup(inst_failure, events_check))
        /\ pc' = "exited"
    /\ UNCHANGED <<retMode, kprobe_event, inst, instMem, instExists, enabled,
                   tracing, buffer, nEmitted, iterVars, nSigints, stdout,
                   inst_failure>>

\* ------------------------------------------------------------- kernel
\* main's positions before the capture window: turn_trace_on has not returned.
PreCapture == {"alloc", "inst_create", "dyn_create", "enable_events",
               "prompt", "await_key", "turn_trace_on"}

Running == pc \notin {"exited", "killed"}

\* The kernel writes a record of an enabled event into the instance's buffer
\* while the instance's tracing is on.  Records written after the process
\* has ended are read by nobody and are left out.
Emit ==
    /\ Running
    /\ instExists /\ tracing
    /\ nEmitted < MaxRecords
    /\ \E ev \in enabled, k \in Kinds, p \in Pids, f \in Names :
        /\ <<p, f>> \in Opens
        /\ (ev = K_EVENT => probeInstalled)
        /\ (ev # K_EVENT => k = "ok")
        /\ (ev # K_EVENT \/ k # "ok") => <<p, f>> = <<SmallPid, EtcPasswd>>
        /\ buffer' = Append(buffer, [ev |-> ev, kind |-> k,
                                     id |-> nEmitted + 1,
                                     pid |-> p, filename |-> f,
                                     early |-> (pc \in PreCapture)])
    /\ nEmitted' = nEmitted + 1
    /\ UNCHANGED <<pc, retMode, exitCode, handleVars, probeInstalled,
                   instExists, enabled, tracing, iterVars, nSigints, stdout,
                   nStderr, calls, cleanupVars, obs>>

\* ---------------------------------------------------------- cleanup.c
\* cleanup.c, main, lines 20-29, run after the opensnoop process has died
\* with its probe installed:
\* a descriptor of the same probe is allocated, tracefs_dynevent_destroy is
\* called on it without force, its result not looked at, and the descriptor
\* is freed.  A null descriptor makes the destroy fail.
CleanupUtility ==
    /\ pc = "killed" /\ probeInstalled
    /\ ~Called("util_dynevent_destroy")
    /\ \E ok \in BOOLEAN :
        \E r \in (IF ok THEN DynDestroyRets ELSE {-1}) :
            /\ probeInstalled' = IF r = 0 THEN FALSE ELSE probeInstalled
            /\ calls' = calls \o <<<<"util_kretprobe_alloc", IF ok THEN 0 ELSE -1>>,
                                   <<"util_dynevent_destroy", r>>,
                                   <<"util_dynevent_free", 0>>>>
    /\ UNCHANGED <<pc, retMode, exitCode, handleVars, instExists, enabled,
                   tracing, buffer, nEmitted, iterVars, nSigints, stdout,
                   nStderr, cleanupVars, obs>>

\* ------------------------------------------------------- read_event_data
Bump(n) == IF n < CounterCap THEN n + 1 ELSE n


\* callback, lines 195-238, on a getnameprobe record: its return value.
callback(rec) == IF rec.kind = "ok" THEN EXIT_SUCCESS ELSE EXIT_FAILURE

\* callback, lines 213-236: the trace_seq after the call.  A failed
\* tep_get_field_raw or tep_get_common_field_val (ERR_ON) writes its
\* diagnostic into it; only the success path resets it.
callbackSeq(rec, s) ==
    CASE rec.kind = "nofield" -> s
      [] rec.kind = "badname" -> s + 1
      [] rec.kind = "badpid"  -> s + 1
      [] OTHER                -> 0

\* callback, lines 221-233: what the call writes to standard output: the
\* record's line on success, and the trace_seq's text where print_seq runs.
callbackOut(rec, s) ==
    CASE rec.kind = "badpid" -> <<SeqDump(s + 1)>>
      [] rec.kind = "ok"     -> IF s > 0 THEN <<RecordLine(rec), SeqDump(s)>>
                                ELSE <<RecordLine(rec)>>
      [] OTHER               -> <<>>

\* callback, lines 206-219: the lines print_err writes to the error channel.
callbackErr(rec) == IF rec.kind \in {"nofield", "badname"} THEN 1 ELSE 0

\* read_event_data, lines 261-268: tracefs_local_events_system and
\* trace_seq_init.  The return of read_event_data is marked in calls, here
\* when no tep handle could be made.
ReadEventData_EarlyReturnSkipsTraceOff ==
    /\ pc = "read_event_data"
    /\ \E tepOk \in BOOLEAN :
        IF tepOk
        THEN /\ seq' = 0
             /\ pc' = "install_handler"
             /\ UNCHANGED <<nStderr, calls>>
        ELSE /\ nStderr' = nStderr + 1
             /\ calls' = Log("read_event_data", -1)
             /\ pc' = "cleanup_instance"
             /\ UNCHANGED seq
    /\ UNCHANGED <<retMode, exitCode, handleVars, kernelVars, iter_events,
                   keep_going, sigHandler, followed, passRet, nSigints,
                   stdout, cleanupVars, obs>>
ReadEventData ==
    /\ pc = "read_event_data"
    /\ \E tepOk \in BOOLEAN :
        IF tepOk
        THEN /\ seq' = 0
             /\ pc' = "install_handler"
             /\ UNCHANGED <<nStderr, calls>>
        ELSE /\ nStderr' = nStderr + 1
             /\ calls' = Log("read_event_data", -1)
             /\ pc' = "trace_off"
             /\ UNCHANGED seq
    /\ UNCHANGED <<retMode, exitCode, handleVars, kernelVars, iter_events,
                   keep_going, sigHandler, followed, passRet, nSigints,
                   stdout, cleanupVars, obs>>

\* read_event_data, line 271: signal(SIGINT, stop_iter).
InstallHandler ==
    /\ pc = "install_handler"
    /\ sigHandler' = "stop_iter"
    /\ pc' = "follow"
    /\ UNCHANGED <<retMode, exitCode, handleVars, kernelVars, iter_events,
                   keep_going, followed, passRet, seq, nSigints, stdout,
                   nStderr, calls, cleanupVars, obs>>

\* read_event_data, line 272: tracefs_follow_event registers callback for
\* the probe's event; its result is not looked at.
FollowEvent ==
    /\ pc = "follow"
    /\ followed' \in BOOLEAN
    /\ pc' = "loop_test"
    /\ UNCHANGED <<retMode, exitCode, handleVars, kernelVars, iter_events,
                   keep_going, sigHandler, passRet, seq, nSigints, stdout,
                   nStderr, calls, cleanupVars, obs>>

\* read_event_data, line 273: the loop's test of iter_events.  The flag is a
\* plain static bool written by the handler; the calls of the loop's body are
\* opaque to the compiler, so every test loads it again.
LoopTest_DrainFirst ==
    /\ pc = "loop_test"
    /\ IF iter_events \/ buffer # <<>>
       THEN /\ pc' = "iterate"
            /\ obs' = [obs EXCEPT !.looped = TRUE,
                         !.flagObserved = @ \/ ~iter_events,
                         !.itersAfterSig = IF obs.sigSeen THEN Bump(@) ELSE @]
       ELSE /\ pc' = "restore_handler"
            /\ obs' = [obs EXCEPT !.flagObserved = TRUE]
    /\ UNCHANGED <<retMode, exitCode, handleVars, kernelVars, iterVars,
                   nSigints, stdout, nStderr, calls, cleanupVars>>
LoopTest_StopWhenEmpty ==
    /\ pc = "loop_test"
    /\ IF iter_events /\ (buffer # <<>> \/ ~obs.looped)
       THEN /\ pc' = "iterate"
            /\ obs' = [obs EXCEPT !.looped = TRUE,
                         !.itersAfterSig = IF obs.sigSeen THEN Bump(@) ELSE @]
       ELSE /\ pc' = "restore_handler"
            /\ obs' = [obs EXCEPT !.flagObserved = TRUE]
    /\ UNCHANGED <<retMode, exitCode, handleVars, kernelVars, iterVars,
                   nSigints, stdout, nStderr, calls, cleanupVars>>
LoopTest_StopOnFailure ==
    /\ pc = "loop_test"
    /\ IF iter_events /\ passRet = 0
       THEN /\ pc' = "iterate"
            /\ obs' = [obs EXCEPT !.looped = TRUE,
                         !.itersAfterSig = IF obs.sigSeen THEN Bump(@) ELSE @]
       ELSE /\ pc' = "restore_handler"
            /\ obs' = [obs EXCEPT !.flagObserved = TRUE]
    /\ UNCHANGED <<retMode, exitCode, handleVars, kernelVars, iterVars,
                   nSigints, stdout, nStderr, calls, cleanupVars>>
LoopTest ==
    /\ pc = "loop_test"
    /\ IF iter_events
       THEN /\ pc' = "iterate"
            /\ obs' = [obs EXCEPT !.looped = TRUE,
                         !.itersAfterSig = IF obs.sigSeen THEN Bump(@) ELSE @]
       ELSE /\ pc' = "restore_handler"
            /\ obs' = [obs EXCEPT !.flagObserved = TRUE]
    /\ UNCHANGED <<retMode, exitCode, handleVars, kernelVars, iterVars,
                   nSigints, stdout, nStderr, calls, cleanupVars>>

\* read_event_data, line 274: tracefs_iterate_raw_events starts a pass; the
\* library sets the instance's iterate_keep_going as it starts.
IterateBegin ==
    /\ pc = "iterate"
    /\ keep_going' = TRUE
    /\ passRet' = 0
    /\ pc' = "in_pass"
    /\ obs' = [obs EXCEPT !.passesAfterSig = IF obs.sigSeen THEN Bump(@) ELSE @]
    /\ UNCHANGED <<retMode, exitCode, handleVars, kernelVars, iter_events,
                   sigHandler, followed, seq, nSigints, stdout, nStderr,
                   calls, cleanupVars>>

\* The pass takes the next record out of the buffer: callback runs on a
\* record of the followed event, then callback_blank (lines 243-247) unless
\* callback returned nonzero.
PassRecord ==
    /\ pc = "in_pass"
    /\ buffer # <<>> /\ keep_going /\ passRet = 0
    /\ LET rec == Head(buffer)
           decode == followed /\ rec.ev = K_EVENT
       IN  /\ buffer' = Tail(buffer)
           /\ passRet' = IF decode THEN callback(rec) ELSE EXIT_SUCCESS
           /\ seq' = IF decode THEN callbackSeq(rec, seq) ELSE seq
           /\ stdout' = IF decode THEN stdout \o callbackOut(rec, seq) ELSE stdout
           /\ nStderr' = IF decode THEN nStderr + callbackErr(rec) ELSE nStderr
           /\ obs' = [obs EXCEPT !.nCallback = IF decode THEN @ + 1 ELSE @,
                        !.nNoField = IF decode /\ rec.kind = "nofield"
                                     THEN @ + 1 ELSE @]
    /\ UNCHANGED <<pc, retMode, exitCode, handleVars, probeInstalled,
                   instExists, enabled, tracing, nEmitted, iter_events,
                   keep_going, sigHandler, followed, nSigints, calls,
                   cleanupVars>>

\* The pass ends (no record left, the stop request, or a callback's nonzero
\* return) and sleep(EVENT_READ_WAIT) begins, line 276.
PassEnd ==
    /\ pc = "in_pass"
    /\ (buffer = <<>> \/ ~keep_going \/ passRet # 0)
    /\ pc' = "sleeping"
    /\ obs' = [obs EXCEPT !.sleepsAfterSig = IF obs.sigSeen THEN Bump(@) ELSE @]
    /\ UNCHANGED <<retMode, exitCode, handleVars, kernelVars, iterVars,
                   nSigints, stdout, nStderr, calls, cleanupVars>>

\* sleep(EVENT_READ_WAIT) returns, line 276.
SleepEnd ==
    /\ pc = "sleeping"
    /\ pc' = "loop_test"
    /\ UNCHANGED <<retMode, exitCode, handleVars, kernelVars, iterVars,
                   nSigints, stdout, nStderr, calls, cleanupVars, obs>>

\* read_event_data, lines 278-283: the default disposition is restored, the
\* trace_seq and the tep handle are released.
RestoreHandler_RearmsFlag ==
    /\ pc = "restore_handler"
    /\ sigHandler' = "SIG_DFL"
    /\ seq' = 0
    /\ followed' = FALSE
    /\ iter_events' = TRUE
    /\ calls' = Log("read_event_data", 0)
    /\ pc' = "trace_off"
    /\ UNCHANGED <<retMode, exitCode, handleVars, kernelVars,
                   keep_going, passRet, nSigints, stdout, nStderr,
                   cleanupVars, obs>>
RestoreHandler_KeepsHandler ==
    /\ pc = "restore_handler"
    /\ seq' = 0
    /\ followed' = FALSE
    /\ calls' = Log("read_event_data", 0)
    /\ pc' = "trace_off"
    /\ UNCHANGED <<retMode, exitCode, handleVars, kernelVars, iter_events,
                   keep_going, sigHandler, passRet, nSigints, stdout,
                   nStderr, cleanupVars, obs>>
RestoreHandler ==
    /\ pc = "restore_handler"
    /\ sigHandler' = "SIG_DFL"
    /\ seq' = 0
    /\ followed' = FALSE
    /\ calls' = Log("read_event_data", 0)
    /\ pc' = "trace_off"
    /\ UNCHANGED <<retMode, exitCode, handleVars, kernelVars, iter_events,
                   keep_going, passRet, nSigints, stdout, nStderr,
                   cleanupVars, obs>>

\* ---------------------------------------------------------------- SIGINT
\* stop_iter, lines 182-186: the flag is cleared and tracefs_iterate_stop
\* clears the instance's iterate_keep_going.  A sleep in progress returns.
stop_iter_StopOnly ==
    /\ keep_going' = FALSE
    /\ pc' = IF pc = "sleeping" THEN "loop_test" ELSE pc
    /\ obs' = [obs EXCEPT !.sigSeen = TRUE, !.nStops = @ + 1]
    /\ UNCHANGED <<iter_events, retMode, exitCode, handleVars, kernelVars,
                   sigHandler, followed, passRet, seq, stdout, nStderr,
                   calls, cleanupVars>>
stop_iter_TraceOff ==
    /\ iter_events' = FALSE
    /\ keep_going' = FALSE
    /\ tracing' = FALSE
    /\ pc' = IF pc = "sleeping" THEN "loop_test" ELSE pc
    /\ obs' = [obs EXCEPT !.sigSeen = TRUE, !.nStops = @ + 1]
    /\ UNCHANGED <<retMode, exitCode, handleVars, probeInstalled, instExists,
                   enabled, buffer, nEmitted, sigHandler, followed, passRet,
                   seq, stdout, nStderr, calls, cleanupVars>>
stop_iter_Toggle ==
    /\ iter_events' = ~iter_events
    /\ keep_going' = FALSE
    /\ pc' = IF pc = "sleeping" THEN "loop_test" ELSE pc
    /\ obs' = [obs EXCEPT !.sigSeen = TRUE, !.nStops = @ + 1]
    /\ UNCHANGED <<retMode, exitCode, handleVars, kernelVars, sigHandler,
                   followed, passRet, seq, stdout, nStderr, calls, cleanupVars>>
stop_iter ==
    /\ iter_events' = FALSE
    /\ keep_going' = FALSE
    /\ pc' = IF pc = "sleeping" THEN "loop_test" ELSE pc
    /\ obs' = [obs EXCEPT !.sigSeen = TRUE, !.nStops = @ + 1]
    /\ UNCHANGED <<retMode, exitCode, handleVars, kernelVars, sigHandler,
                   followed, passRet, seq, stdout, nStderr, calls, cleanupVars>>

\* SIGINT is delivered: stop_iter runs where it is installed (line 271), the
\* default disposition ends the process.
Sigint ==
    /\ Running
    /\ nSigints < MaxSigints
    /\ nSigints' = nSigints + 1
    /\ IF sigHandler = "stop_iter"
       THEN stop_iter
       ELSE /\ pc' = "killed"
            /\ UNCHANGED <<retMode, exitCode, handleVars, kernelVars, iterVars,
                           stdout, nStderr, calls, cleanupVars, obs>>

Next ==
    \/ AllocKprobe
    \/ CreateInstance
    \/ CreateDynevent
    \/ EnableEvents
    \/ Prompt
    \/ ReadKey
    \/ TurnTraceOn
    \/ ReadEventData
    \/ InstallHandler
    \/ FollowEvent
    \/ LoopTest
    \/ IterateBegin
    \/ PassRecord
    \/ PassEnd
    \/ SleepEnd
    \/ RestoreHandler
    \/ TraceOff
    \/ CleanupInstance
    \/ CleanupKprobe
    \/ Emit
    \/ Sigint
    \/ CleanupUtility

Spec == Init /\ [][Next]_vars

\* The program is one thread and every call it makes returns: a step of the
\* program that can be taken is taken.  The kernel's records and the signals
\* arrive or not.
ProgramStep ==
    \/ AllocKprobe \/ CreateInstance \/ CreateDynevent \/ EnableEvents
    \/ Prompt \/ ReadKey \/ TurnTraceOn \/ ReadEventData \/ InstallHandler
    \/ FollowEvent \/ LoopTest \/ IterateBegin \/ PassRecord \/ PassEnd
    \/ SleepEnd \/ RestoreHandler \/ TraceOff \/ CleanupInstance
    \/ CleanupKprobe
FairSpec == Spec /\ WF_vars(ProgramStep)

\* ------------------------------------------------- the earlier variant
\* The earlier variant of the program (src/opensnoop.c, lines 369-546): main
\* installs the probe, checks with ensure_events_exist that the events it
\* needs are in the tracing directory, creates the instance and tears both
\* down.  The names of lines 387-397.
K_EVENT_SYS == "kprobes"
K_EVENT_BARE == "getnameprobe"
EVENT_SYS == "syscalls"
OPENAT == "sys_exit_openat"
OPEN == "sys_exit_open"

\* What the tracing directory may hold besides the program's own probe: the
\* two syscall events, another syscall event, and a probe of the same name
\* in another group.
StaticEvents == {<<EVENT_SYS, OPEN>>, <<EVENT_SYS, OPENAT>>,
                 <<EVENT_SYS, "sys_enter_open">>,
                 <<"myprobes", K_EVENT_BARE>>}
\* The order in which the listings name systems and events.
SystemOrder == <<K_EVENT_SYS, "myprobes", EVENT_SYS>>
EventOrder == <<K_EVENT_BARE, "sys_enter_open", OPEN, OPENAT>>

\* tracefs_event_systems(NULL): the systems that hold an event, or NULL.
event_systems(ok, present) ==
    [ok |-> ok,
     list |-> IF ok
              THEN SelectSeq(SystemOrder,
                             LAMBDA s : \E p \in present : p[1] = s)
              ELSE <<>>]
\* tracefs_system_events(NULL, system): the system's events, or NULL.
system_events(ok, present, system) ==
    [system |-> system, ok |-> ok,
     list |-> IF ok
              THEN SelectSeq(EventOrder, LAMBDA e : <<system, e>> \in present)
              ELSE <<>>]

\* ensure_events_exist, lines 429-440: the inner loop over one system's
\* events, from index e, on the three flags.
RECURSIVE ScanEvents(_, _, _, _)
ScanEvents(system, events, e, flags) ==
    IF e > Len(events) THEN flags
    ELSE ScanEvents(system, events, e + 1,
            IF system = K_EVENT_SYS /\ events[e] = K_EVENT_BARE
            THEN [flags EXCEPT !.getnameprobe_exists = TRUE]
            ELSE IF system = EVENT_SYS /\ events[e] = OPEN
            THEN [flags EXCEPT !.open_exists = TRUE]
            ELSE IF system = EVENT_SYS /\ events[e] = OPENAT
            THEN [flags EXCEPT !.openat_exists = TRUE]
            ELSE flags)

\* ensure_events_exist, lines 424-443: the outer loop over the systems, from
\* index s; a system whose events cannot be listed is passed over.
RECURSIVE ScanSystems(_, _, _, _)
ScanSystems(systems, eventsOf, s, flags) ==
    IF s > Len(systems) THEN flags
    ELSE ScanSystems(systems, eventsOf, s + 1,
            IF eventsOf[s].ok
            THEN ScanEvents(systems[s], eventsOf[s].list, 1, flags)
            ELSE flags)

\* The flags ensure_events_exist ends with, lines 415-443.
ensure_events_flags(systems, eventsOf) ==
    ScanSystems(systems.list, eventsOf, 1,
                [open_exists |-> FALSE, openat_exists |-> FALSE,
                 getnameprobe_exists |-> FALSE])

\* ensure_events_exist, lines 408-462: its return value as a C bool (1 is
\* true), given what the two listing calls returned.  Line 421 returns
\* EXIT_FAILURE converted to bool; line 461 returns the negation of the
\* conjunction of the flags.
ensure_events_exist(systems, eventsOf) ==
    IF ~systems.ok THEN BoolOf(EXIT_FAILURE)
    ELSE LET f == ensure_events_flags(systems, eventsOf)
         IN  IF f.open_exists /\ f.openat_exists /\ f.getnameprobe_exists
             THEN 0 ELSE 1

\* The diagnostics ensure_events_exist writes, lines 448-459: one for each
\* flag left false.
ensure_events_diagnostics(systems, eventsOf) ==
    IF ~systems.ok THEN 0
    ELSE LET f == ensure_events_flags(systems, eventsOf)
         IN  (IF f.open_exists THEN 0 ELSE 1)
             + (IF f.openat_exists THEN 0 ELSE 1)
             + (IF f.getnameprobe_exists THEN 0 ELSE 1)

\* The earlier variant starts as the final one does.
EarlierInit ==
    /\ pc = "earlier_alloc"
    /\ retMode = "check"
    /\ exitCode = -1
    /\ kprobe_event = "NULL"
    /\ descMem = "none"
    /\ inst = "NULL"
    /\ instMem = "none"
    /\ probeInstalled = FALSE
    /\ instExists \in BOOLEAN
    /\ enabled \in SUBSET OtherEvents
    /\ (~instExists => enabled = {})
    /\ tracing = instExists
    /\ buffer = <<>>
    /\ nEmitted = 0
    /\ iter_events = TRUE
    /\ keep_going = FALSE
    /\ sigHandler = "SIG_DFL"
    /\ nSigints = 0
    /\ followed = FALSE
    /\ passRet = 0
    /\ seq = 0
    /\ stdout = <<>>
    /\ nStderr = 0
    /\ calls = <<>>
    /\ inst_failure = 0
    /\ kprobe_failure = 0
    /\ obs = Obs0

\* main, lines 502-509: tracefs_kretprobe_alloc; main returns at once when
\* it fails.
EarlierAllocKprobe ==
    /\ pc = "earlier_alloc"
    /\ \E ok \in BOOLEAN :
        IF ok
        THEN /\ kprobe_event' = "desc"
             /\ descMem' = "live"
             /\ calls' = Log("kretprobe_alloc", 0)
             /\ pc' = "earlier_dyn_create"
             /\ UNCHANGED <<exitCode, nStderr>>
        ELSE /\ calls' = Log("kretprobe_alloc", -1)
             /\ nStderr' = nStderr + 1
             /\ exitCode' = EXIT_FAILURE
             /\ pc' = "exited"
             /\ UNCHANGED <<kprobe_event, descMem>>
    /\ UNCHANGED <<retMode, inst, instMem, kernelVars, iterVars, nSigints,
                   stdout, cleanupVars, obs>>

\* main, lines 511-520: tracefs_dynevent_create; when it fails main goes to
\* cleanup_kprobe and returns EXIT_FAILURE.
EarlierCreateDynevent ==
    /\ pc = "earlier_dyn_create"
    /\ \E events_check \in Rets :
        /\ calls' = Log("dynevent_create", events_check)
        /\ probeInstalled' = (events_check = 0)
        /\ nStderr' = nStderr + BoolOf(events_check)
        /\ retMode' = IF events_check # 0 THEN "fail" ELSE retMode
        /\ pc' = IF events_check # 0 THEN "earlier_cleanup_kprobe"
                 ELSE "earlier_ensure_events"
    /\ UNCHANGED <<exitCode, handleVars, instExists, enabled, tracing, buffer,
                   nEmitted, iterVars, nSigints, stdout, cleanupVars, obs>>

\* main, lines 522-528, with ensure_events_exist, lines 408-462: the
\* directory holds the installed probe and any of the static events; either
\* listing call may return NULL.  main takes a result that is not zero as
\* the failure: it goes to cleanup_kprobe and returns EXIT_FAILURE.
EarlierEnsureEvents ==
    /\ pc = "earlier_ensure_events"
    /\ \E sysOk \in BOOLEAN, static \in SUBSET StaticEvents,
          unreadable \in SUBSET {K_EVENT_SYS, EVENT_SYS} :
        LET present == static \cup (IF probeInstalled
                                    THEN {<<K_EVENT_SYS, K_EVENT_BARE>>}
                                    ELSE {})
            systems == event_systems(sysOk, present)
            eventsOf == [s \in 1..Len(systems.list) |->
                            system_events(systems.list[s] \notin unreadable,
                                          present, systems.list[s])]
            events_check == ensure_events_exist(systems, eventsOf)
        IN  /\ calls' = calls \o <<<<"event_systems", systems>>>>
                         \o [s \in 1..Len(eventsOf) |->
                                <<"system_events", eventsOf[s]>>]
                         \o <<<<"ensure_events_exist", events_check>>>>
            /\ nStderr' = nStderr
                          + ensure_events_diagnostics(systems, eventsOf)
                          + events_check
            /\ retMode' = IF events_check # 0 THEN "fail" ELSE retMode
            /\ pc' = IF events_check # 0 THEN "earlier_cleanup_kprobe"
                     ELSE "earlier_inst_create"
    /\ UNCHANGED <<exitCode, handleVars, kernelVars, iterVars, nSigints,
                   stdout, cleanupVars, obs>>

\* main, line 531: tracefs_instance_create(INST_NAME); its result is not
\* looked at, inst is NULL when it failed.
EarlierCreateInstance ==
    /\ pc = "earlier_inst_create"
    /\ \E ok \in BOOLEAN :
        IF ok
        THEN /\ inst' = "inst"
             /\ instMem' = "live"
             /\ instExists' = TRUE
             /\ enabled' = IF instExists THEN enabled ELSE {}
             /\ tracing' = IF instExists THEN tracing ELSE TRUE
             /\ calls' = Log("instance_create", 0)
        ELSE /\ calls' = Log("instance_create", -1)
             /\ UNCHANGED <<inst, instMem, instExists, enabled, tracing>>
    /\ pc' = "earlier_cleanup_instance"
    /\ UNCHANGED <<retMode, exitCode, kprobe_event, descMem, probeInstalled,
                   buffer, nEmitted, iterVars, nSigints, stdout, nStderr,
                   cleanupVars, obs>>

\* main, line 541, with cleanup_instance, lines 467-477:
\* tracefs_instance_destroy, which fails on a NULL handle, then
\* tracefs_instance_free; the result is main's return_check.
EarlierCleanupInstance ==
    /\ pc = "earlier_cleanup_instance"
    /\ \E events_check \in (IF inst = "NULL" THEN {-1} ELSE InstDestroyRets) :
        /\ instExists' = IF events_check = 0 THEN FALSE ELSE instExists
        /\ enabled' = IF events_check = 0 THEN {} ELSE enabled
        /\ tracing' = IF events_check = 0 THEN FALSE ELSE tracing
        /\ instMem' = IF inst = "NULL" THEN instMem ELSE "freed"
        /\ calls' = Append(Log("instance_destroy", events_check),
                           <<"instance_free", 0>>)
        /\ nStderr' = nStderr + BoolOf(events_check)
        /\ inst_failure' = events_check
    /\ pc' = "earlier_cleanup_kprobe"
    /\ UNCHANGED <<retMode, exitCode, kprobe_event, descMem, inst,
                   probeInstalled, buffer, nEmitted, iterVars, nSigints,
                   stdout, kprobe_failure, obs>>

\* cleanup_kprobe, lines 482-492, as called at lines 518, 526 and 542, then
\* main's return: EXIT_FAILURE at lines 519 and 527, return_check ||
\* events_check at line 544.
EarlierCleanupKprobe ==
    /\ pc = "earlier_cleanup_kprobe"
    /\ \E events_check \in DynDestroyRets :
        /\ probeInstalled' = IF events_check = 0 THEN FALSE ELSE probeInstalled
        /\ descMem' = "freed"
        /\ calls' = Append(Log("dynevent_destroy", events_check),
                           <<"dynevent_free", 0>>)
        /\ nStderr' = nStderr + BoolOf(events_check)
        /\ kprobe_failure' = events_check
        /\ exitCode' = IF retMode = "fail" THEN EXIT_FAILURE
                       ELSE LOr(inst_failure, events_check)
    /\ pc' = "exited"
    /\ UNCHANGED <<retMode, kprobe_event, inst, instMem, instExists, enabled,
                   tracing, buffer, nEmitted, iterVars, nSigints, stdout,
                   inst_failure, obs>>

EarlierNext ==
    \/ EarlierAllocKprobe
    \/ EarlierCreateDynevent
    \/ EarlierEnsureEvents
    \/ EarlierCreateInstance
    \/ EarlierCleanupInstance
    \/ EarlierCleanupKprobe

EarlierSpec == EarlierInit /\ [][EarlierNext]_vars

\* ---------------------------------------------------------------- claims
Exited == pc = "exited"

C2_SetupFailureTearsDown ==
    (Exited /\ obs.setupFailed) =>
        /\ exitCode # 0
        /\ descMem # "live"
        /\ (instMem # "none" => instMem = "freed" /\ Called("instance_destroy"))
        /\ (<<"dynevent_create", 0>> \in {calls[i] : i \in 1..Len(calls)}
                => Called("dynevent_destroy"))

\* C3: when main has returned, an allocated descriptor was uninstalled and
\* then freed, each exactly once, and a created instance was destroyed
\* exactly once.
C3_TeardownExactlyOnce ==
    Exited =>
        /\ (descMem # "none" =>
                /\ NCalls("dynevent_destroy") = 1
                /\ NCalls("dynevent_free") = 1
                /\ IndexOf("dynevent_destroy") < IndexOf("dynevent_free"))
        /\ (instMem # "none" => NCalls("instance_destroy") = 1)

\* Every path but the failed tracefs_dynevent_create satisfies C3.
C3_ButInstallFailure ==
    (Exited /\ <<"dynevent_create", -1>> \notin {calls[i] : i \in 1..Len(calls)})
        => C3_TeardownExactlyOnce

\* C4: when cleanup was called and main has returned, both destroy calls were
\* made, whatever the first reported, and cleanup returned nonzero exactly
\* when at least one of them reported failure.
C4_CleanupBothSteps ==
    (Exited /\ Called("instance_destroy")) =>
        /\ NCalls("instance_destroy") = 1
        /\ NCalls("dynevent_destroy") = 1
        /\ IndexOf("instance_destroy") < IndexOf("dynevent_destroy")
        /\ obs.cleanupRet \in {0, 1}
        /\ (obs.cleanupRet # 0 <=> (inst_failure # 0 \/ kprobe_failure # 0))

C4_Witness ==
    /\ Exited
    /\ <<"instance_destroy", -1>> \in {calls[i] : i \in 1..Len(calls)}
    /\ <<"dynevent_destroy", 0>> \in {calls[i] : i \in 1..Len(calls)}
    /\ obs.cleanupRet = 1

\* C5: main returns 0 or 1, and 0 exactly when every start-up step succeeded,
\* the final trace-off succeeded and both destroy calls reported success.
C5_ExitCode ==
    Exited =>
        /\ exitCode \in {EXIT_SUCCESS, EXIT_FAILURE}
        /\ (exitCode = EXIT_SUCCESS <=>
                /\ ~obs.setupFailed
                /\ CalledAfterRead("trace_off", 0)
                /\ <<"instance_destroy", 0>> \in {calls[i] : i \in 1..Len(calls)}
                /\ <<"dynevent_destroy", 0>> \in {calls[i] : i \in 1..Len(calls)})

C5_Witness ==
    /\ Exited /\ exitCode = EXIT_SUCCESS
    /\ obs.looped

\* C6: from the successful return of enable_necessary_events until the
\* instance is destroyed, the events enabled in the instance are exactly the
\* probe's event.
C6_OnlyProbeEventEnabled ==
    (obs.enableOk /\ instExists) => enabled = {K_EVENT}

C6_Witness ==
    /\ obs.enableOk /\ instExists /\ tracing
    /\ pc = "in_pass" /\ buffer # <<>>
    /\ enabled = {K_EVENT}

\* C7: a record that entered the buffer before turn_trace_on was called is
\* never delivered to callback nor printed.
C7_NoEarlyRecordPrinted ==
    \A i \in 1..Len(stdout) : stdout[i].t = "line" => ~stdout[i].early

\* C8: when the first step of turn_trace_on fails, tracefs_trace_on is not
\* called, the polling loop is not entered, and main returns 1 after both
\* destroy calls.
C8_FailedClearNeverStarts ==
    obs.clearFailed =>
        /\ ~Called("trace_on")
        /\ ~obs.looped
        /\ pc \notin {"read_event_data", "install_handler", "follow",
                      "loop_test", "iterate", "in_pass", "sleeping",
                      "restore_handler", "trace_off"}
        /\ (Exited => /\ exitCode = EXIT_FAILURE
                      /\ Called("instance_destroy")
                      /\ Called("dynevent_destroy"))

C8_Witness ==
    /\ Exited /\ obs.clearFailed
    /\ exitCode = EXIT_FAILURE
    /\ tracing

\* C9: after SIGINT ran stop_iter, the loop's test lets no further pass of
\* the loop's body begin (only the one in flight completes), and at most one
\* sleep begins before the loop is left.
C9_LoopLeavesAfterSigint ==
    obs.sigSeen =>
        /\ obs.itersAfterSig = 0
        /\ obs.sleepsAfterSig <= 1

C9_Witness ==
    /\ obs.sigSeen /\ obs.sleepsAfterSig = 1
    /\ obs.flagObserved
    /\ pc = "restore_handler"

\* C10: once the loop has read the flag as false, callback is not invoked
\* again and nothing more is written to standard output.
C10_NoOutputAfterObserved ==
    [][obs.flagObserved =>
            /\ stdout' = stdout
            /\ obs'.nCallback = obs.nCallback]_vars

C10_Witness ==
    /\ obs.flagObserved
    /\ pc = "restore_handler"
    /\ followed
    /\ buffer # <<>> /\ Head(buffer).ev = K_EVENT /\ Head(buffer).kind = "ok"

\* C11: the polling loop is left only after stop_iter has run: neither a
\* decoded record, nor a decode failure, nor an empty pass ends it.
C11_LoopEndsOnlyByCancellation ==
    /\ (pc = "restore_handler" \/ <<"read_event_data", 0>> \in
            {calls[i] : i \in 1..Len(calls)}) => obs.sigSeen
    /\ (pc \in {"iterate", "in_pass", "sleeping"} /\ ~obs.sigSeen) => iter_events

C11_Witness ==
    /\ pc = "loop_test" /\ ~obs.sigSeen /\ iter_events
    /\ obs.nCallback >= 1 /\ passRet # 0
    /\ buffer = <<>>

\* The record with the given id was written as a line / waits in the buffer
\* as a record callback decodes.
LinesOf(r) == {i \in 1..Len(stdout) : stdout[i].t = "line" /\ stdout[i].id = r}
InLoop == pc \in {"loop_test", "iterate", "in_pass", "sleeping"}
ValidInBuffer(r) ==
    \E i \in 1..Len(buffer) :
        buffer[i].id = r /\ buffer[i].ev = K_EVENT /\ buffer[i].kind = "ok"

IsDigit(c) == \E d \in 0..9 : DigitChar(d) = c
DigitVal(c) == CHOOSE d \in 0..9 : DigitChar(d) = c
RECURSIVE ParseDecimal(_)
ParseDecimal(text) ==
    IF text = <<>> THEN 0
    ELSE 10 * ParseDecimal(SubSeq(text, 1, Len(text) - 1))
         + DigitVal(text[Len(text)])
\* The digits a line starts with.
LeadingDigits(text) ==
    LET stop == {i \in 1..Len(text) : ~IsDigit(text[i])}
        n == IF stop = {} THEN Len(text)
             ELSE (CHOOSE i \in stop : \A j \in stop : i <= j) - 1
    IN  SubSeq(text, 1, n)
RecordLines == {i \in 1..Len(stdout) : stdout[i].t = "line"}

\* C13 as stated: every record line is the pid right-justified in width 7,
\* one space, the filename; "   1234 /etc/passwd" for 1234 and /etc/passwd.
C13_RightJustifiedThenSpace ==
    \A i \in RecordLines :
        LET l == stdout[i]
            digits == Decimal(l.pid)
            fill == IF Len(digits) < 7 THEN 7 - Len(digits) ELSE 0
        IN  /\ l.text = Spaces(fill) \o digits \o <<" ">> \o l.filename
            /\ (l.pid = 1234 /\ l.filename = EtcPasswd) =>
                l.text = <<" ", " ", " ", "1", "2", "3", "4", " ">> \o EtcPasswd

\* C13, amended: every record line starts with the pid in decimal, then
\* spaces up to column 7 (none when the pid has 7 digits or more), then the
\* filename and nothing else; "1234   /etc/passwd" for 1234 and /etc/passwd.
\* No record is written twice.
C13_LeftJustifiedNoSpace ==
    /\ \A i \in RecordLines :
        LET l == stdout[i]
            digits == LeadingDigits(l.text)
            col == IF Len(digits) < 7 THEN 7 ELSE Len(digits)
        IN  /\ digits # <<>> /\ ParseDecimal(digits) = l.pid
            /\ (Len(digits) > 1 => digits[1] # "0")
            /\ Len(l.text) = col + Len(l.filename)
            /\ \A j \in (Len(digits) + 1)..col : l.text[j] = " "
            /\ SubSeq(l.text, col + 1, Len(l.text)) = l.filename
            /\ (l.pid = 1234 /\ l.filename = EtcPasswd) =>
                l.text = <<"1", "2", "3", "4", " ", " ", " ">> \o EtcPasswd
    /\ \A i, j \in RecordLines : stdout[i].id = stdout[j].id => i = j

C13_Witness ==
    /\ \E i \in RecordLines :
        stdout[i].pid = 1234 /\ stdout[i].filename = EtcPasswd
    /\ \E i \in RecordLines : stdout[i].pid = BigPid

\* C14: once cleanup_instance has returned the instance handle inst is
\* null, and once cleanup_kprobe has returned the descriptor handle
\* kprobe_event is null, so that a second teardown finds nothing to destroy.
C14_HandlesNullAfterTeardown ==
    /\ Called("instance_free") => inst = "NULL"
    /\ Called("dynevent_free") => kprobe_event = "NULL"

Headers == {i \in 1..Len(stdout) : stdout[i].t = "header"}

\* C15: the header row is written once, when scanf has returned: never
\* before, and not again afterwards; every record line comes after it.
C15_HeaderOnceBeforeRecords ==
    /\ Cardinality(Headers) <= 1
    /\ Called("scanf") <=> Cardinality(Headers) = 1
    /\ \A i \in RecordLines : \E h \in Headers : h < i

C15_Witness ==
    /\ Exited /\ Cardinality(Headers) = 1
    /\ Cardinality(RecordLines) = MaxRecords

\* C16: once stop_iter has run, tracefs_iterate_raw_events is not called
\* again; a pass in progress at that moment is the last one.
C16_NoPassStartsAfterStop == obs.sigSeen => obs.passesAfterSig = 0

\* main has returned after the final tracefs_trace_off and both destroys.
TornDown ==
    /\ Exited
    /\ \E r \in Rets : CalledAfterRead("trace_off", r)
    /\ Called("instance_destroy") /\ Called("dynevent_destroy")

\* C17: when SIGINT has reached stop_iter, the process does not run on for
\* ever but comes to its end:
\* main returns, having called tracefs_trace_off after the loop and both
\* tracefs_instance_destroy and tracefs_dynevent_destroy, unless a later
\* SIGINT, delivered after the default disposition is back, kills it first.
C17_InterruptLeadsToTeardown ==
    []<>(~obs.sigSeen \/ TornDown \/ pc = "killed")

C17_Witness == obs.sigSeen /\ TornDown /\ nSigints = 1

\* C18: a run of stop_iter clears iter_events and leaves the stop request
\* with the instance; it writes nothing, creates and frees nothing, and
\* leaves the probe, the instance, its enabled events, its tracing state and
\* its buffer, the installed handler and main's position as they are (a
\* sleep the signal interrupts returns).
C18_StopIterFrame ==
    [][(obs'.nStops # obs.nStops) =>
        /\ ~iter_events' /\ ~keep_going'
        /\ UNCHANGED <<stdout, nStderr, calls>>
        /\ UNCHANGED <<handleVars, kernelVars, cleanupVars>>
        /\ UNCHANGED <<sigHandler, followed, passRet, seq, retMode, exitCode>>
        /\ pc' = IF pc = "sleeping" THEN "loop_test" ELSE pc]_vars

C18_Witness ==
    /\ obs.nStops = 1 /\ pc = "in_pass" /\ ~iter_events /\ ~keep_going
    /\ tracing /\ buffer # <<>> /\ instMem = "live"

\* C19: iter_events is true until stop_iter runs; the only step that changes
\* it is a run of stop_iter, which makes it false; once false it stays false.
C19_FlagWrittenOnlyByStopIter ==
    /\ [](obs.nStops = 0 => iter_events)
    /\ [][iter_events' # iter_events =>
            (iter_events /\ ~iter_events' /\ sigHandler = "stop_iter"
             /\ obs'.nStops = obs.nStops + 1)]_vars
    /\ [][~iter_events => ~iter_events']_vars

C19_Witness == Exited /\ ~iter_events /\ obs.nStops >= 1 /\ obs.flagObserved

\* The calls of tracefs_trace_off made after read_event_data returned.
TraceOffsAfterRead ==
    {i \in 1..Len(calls) :
        /\ calls[i][1] = "trace_off"
        /\ \E j \in 1..(i-1) : calls[j][1] = "read_event_data"}

\* C20: a run of stop_iter that is not the first leaves the flag false and
\* the stop request set, and changes nothing else; after two or more runs
\* of it the program still comes to its end, and when main has returned the
\* loop was left once and tracefs_trace_off (after the loop) and each of the
\* two destroys were called once.
C20_RepeatedInterruptIsNoOp ==
    /\ [][(obs'.nStops # obs.nStops /\ obs.nStops >= 1) =>
            /\ ~iter_events /\ ~iter_events' /\ ~keep_going'
            /\ UNCHANGED <<stdout, nStderr, calls, handleVars, kernelVars,
                           cleanupVars, sigHandler, followed, passRet, seq,
                           retMode, exitCode>>]_vars
    /\ [][(Exited /\ obs.nStops >= 2 =>
            /\ NCalls("read_event_data") = 1
            /\ Cardinality(TraceOffsAfterRead) = 1
            /\ NCalls("instance_destroy") = 1
            /\ NCalls("dynevent_destroy") = 1)']_vars
    /\ []<>(obs.nStops < 2 \/ TornDown \/ pc = "killed")

C20_Witness == TornDown /\ obs.nStops = 2 /\ ~iter_events

\* The result of the last call of that name.
LastResult(name) ==
    LET is == {i \in 1..Len(calls) : calls[i][1] = name}
    IN  calls[CHOOSE i \in is : \A j \in is : j <= i][2]
\* Every call of the first name is directly followed by a call of the second.
FollowedBy(first, second) ==
    \A i \in 1..Len(calls) :
        calls[i][1] = first => (i < Len(calls) /\ calls[i + 1][1] = second)

\* C21: every tracefs_instance_destroy is followed by one
\* tracefs_instance_free and every tracefs_dynevent_destroy by one
\* tracefs_dynevent_free, whatever the destroy returned; the memory is then
\* released; and what cleanup_instance and cleanup_kprobe return is the
\* destroy's result.  This holds after every step.
C21_FreeUnconditional ==
    [][(/\ FollowedBy("instance_destroy", "instance_free")
        /\ FollowedBy("dynevent_destroy", "dynevent_free")
        /\ NCalls("instance_free") = NCalls("instance_destroy")
        /\ NCalls("dynevent_free") = NCalls("dynevent_destroy")
        /\ Called("instance_destroy") =>
            (instMem = "freed" /\ inst_failure = LastResult("instance_destroy"))
        /\ Called("dynevent_destroy") =>
            (descMem = "freed"
             /\ kprobe_failure = LastResult("dynevent_destroy")))']_vars

C21_Witness ==
    /\ CallFailed("instance_destroy") /\ CallFailed("dynevent_destroy")
    /\ instMem = "freed" /\ descMem = "freed"

\* turn_trace_on succeeded: tracefs_trace_on was called and returned 0.
TraceOnOk == <<"trace_on", 0>> \in {calls[i] : i \in 1..Len(calls)}
\* The calls of either destroy.
DestroyCalls ==
    {i \in 1..Len(calls) : calls[i][1] \in {"instance_destroy", "dynevent_destroy"}}

\* C22: after a successful turn_trace_on, tracefs_trace_off is called at
\* most once after read_event_data has returned; no destroy is called before
\* it; and when main has returned it was called once and both destroys
\* after it, whether read_event_data left its loop or returned early and
\* whatever the trace-off returned.  This holds after every step.
C22_TraceOffOnceBeforeTeardown ==
    [][(TraceOnOk =>
            /\ Cardinality(TraceOffsAfterRead) <= 1
            /\ \A d \in DestroyCalls : \E t \in TraceOffsAfterRead : t < d
            /\ Exited =>
                /\ Cardinality(TraceOffsAfterRead) = 1
                /\ Called("instance_destroy")
                /\ Called("dynevent_destroy"))']_vars

C22_Witness ==
    /\ Exited /\ TraceOnOk
    /\ <<"read_event_data", -1>> \in {calls[i] : i \in 1..Len(calls)}
    /\ \E t \in TraceOffsAfterRead : calls[t][2] # 0
    /\ Called("instance_destroy") /\ Called("dynevent_destroy")

\* C23: when tracefs_event_disable(inst, NULL, NULL) has failed,
\* enable_necessary_events has returned failure, tracefs_event_enable was not
\* called and the probe's event is not enabled; main calls neither
\* turn_trace_on nor read_event_data: tracing is not turned on, no handler
\* is installed and the loop is not entered.
C23_FailedResetIsFatal ==
    CallFailed("event_disable") =>
        /\ CallFailed("enable_necessary_events")
        /\ ~Called("event_enable") /\ K_EVENT \notin enabled
        /\ ~Called("trace_on") /\ ~Called("trace_off")
        /\ ~Called("read_event_data") /\ ~obs.looped
        /\ sigHandler = "SIG_DFL"
        /\ pc \in {"cleanup_instance", "cleanup_kprobe", "exited", "killed"}

C23_Witness ==
    /\ Exited /\ CallFailed("event_disable") /\ exitCode = EXIT_FAILURE
    /\ Called("instance_destroy") /\ Called("dynevent_destroy")

\* The first call of the first name with that result comes before every
\* call of the second name.
Before(first, r, second) ==
    \A j \in 1..Len(calls) :
        calls[j][1] = second =>
            \E i \in 1..(j - 1) : calls[i] = <<first, r>>

\* C24: tracefs_event_enable is called only after tracefs_dynevent_create
\* and tracefs_instance_create succeeded; tracefs_trace_on only after
\* enable_necessary_events succeeded; the loop runs only after
\* tracefs_trace_on succeeded, with tracing on; and on the path without a
\* failure the destroys come only after a successful tracefs_trace_off that
\* followed read_event_data, with tracing off.  This holds after every step.
C24_StartupOrder ==
    [][(/\ Before("dynevent_create", 0, "event_enable")
        /\ Before("instance_create", 0, "event_enable")
        /\ Before("instance_create", 0, "dynevent_create")
        /\ Before("enable_necessary_events", 0, "trace_on")
        /\ InLoop => (TraceOnOk /\ tracing)
        /\ Before("trace_on", 0, "read_event_data")
        /\ (/\ retMode = "check"
            /\ pc \in {"cleanup_instance", "cleanup_kprobe", "exited"}) =>
            /\ \A d \in DestroyCalls :
                \E t \in TraceOffsAfterRead : t < d /\ calls[t][2] = 0
            /\ (pc = "cleanup_instance" => ~tracing))']_vars

C24_Witness ==
    /\ Exited /\ retMode = "check" /\ obs.looped /\ obs.nCallback >= 1
    /\ Called("instance_destroy") /\ Called("dynevent_destroy")

\* C25: a process that SIGINT has ended after its probe was installed has
\* called both destroys before it ended.
C25_InterruptAnywhereTearsDown ==
    (pc = "killed" /\ <<"dynevent_create", 0>> \in {calls[i] : i \in 1..Len(calls)}) =>
        /\ Called("instance_destroy") /\ Called("dynevent_destroy")

\* C26: while stop_iter is the installed handler, the global inst holds the
\* handle of the program's instance, which exists and whose memory has not
\* been freed, and main is inside read_event_data.
C26_HandlerOnlyWithLiveInstance ==
    sigHandler = "stop_iter" =>
        /\ inst = "inst" /\ instMem = "live" /\ instExists
        /\ ~Called("instance_destroy") /\ ~Called("instance_free")
        /\ pc \in {"follow", "restore_handler"} \/ InLoop

C26_Witness ==
    /\ sigHandler = "stop_iter" /\ obs.nStops >= 1 /\ pc = "restore_handler"

CallbackDue ==
    /\ pc = "in_pass" /\ buffer # <<>> /\ keep_going /\ passRet = 0
    /\ followed /\ Head(buffer).ev = K_EVENT

\* C28: the trace_seq is empty whenever callback is about to run.
C28_SeqEmptyAtCallbackStart == CallbackDue => seq = 0

\* C29: when main has returned 0, the polling loop was entered.
C29_SuccessMeansIterated == (Exited /\ exitCode = 0) => obs.looped

\* C30: when the cleanup utility has run, with its descriptor allocated,
\* after a run that left the probe installed, no getnameprobe probe is
\* installed, also when the dead run's instance still holds the event
\* enabled.
C30_UtilityRemovesLeftoverProbe ==
    <<"util_kretprobe_alloc", 0>> \in {calls[i] : i \in 1..Len(calls)}
        => ~(probeInstalled /\ ProbeBusy)

\* What the listing calls of the earlier variant returned holds that event:
\* the list of systems was read, and so was the list of that system's
\* events, with the event in it.
Listed(system, event) ==
    /\ \E i \in 1..Len(calls) :
        calls[i][1] = "event_systems" /\ calls[i][2].ok
    /\ \E i \in 1..Len(calls) :
        /\ calls[i][1] = "system_events"
        /\ calls[i][2].system = system /\ calls[i][2].ok
        /\ \E k \in 1..Len(calls[i][2].list) : calls[i][2].list[k] = event
AllRequiredListed ==
    /\ Listed(K_EVENT_SYS, K_EVENT_BARE)
    /\ Listed(EVENT_SYS, OPEN)
    /\ Listed(EVENT_SYS, OPENAT)

\* C31: when ensure_events_exist has returned, it returned true (1) exactly
\* when kprobes/getnameprobe, syscalls/sys_exit_open and
\* syscalls/sys_exit_openat were all listed, and false (0) when one was
\* missing or the list of systems could not be read.
C31_TrueExactlyWhenAllPresent ==
    \A i \in 1..Len(calls) :
        calls[i][1] = "ensure_events_exist" =>
            (calls[i][2] = 1 <=> AllRequiredListed)
====
